---- MODULE Spec2Model ----
(***************************************************************************)
(* Model of lib/extension/deviceAvailability.js (DeviceAvailabilityHandler) *)
(*                                                                         *)
(* The handler runs on a single-threaded event loop: every callback        *)
(* (onMQTTConnected, a timer callback, the zigbee.ping callback,           *)
(* onZigbeeMessage, stop) runs to completion, so each is one action.       *)
(* The npm `queue` object built in the constructor is modelled by its      *)
(* fields jobs / pending / running and by its push, start, next and stop   *)
(* operations as the handler configures it (concurrency 1, autostart).     *)
(***************************************************************************)
EXTENDS Integers, Sequences, FiniteSets, TLC

\* ------------------------------------------------------------------ bounds
\* Number of onMQTTConnected() / stop() calls explored in one behaviour.
MaxLifecycle == 3

\* ------------------------------------------------------------- the devices
\* zigbee.getDevices(): the known devices, in registry order.
Devs == <<"A", "B", "C">>

Nodes == {Devs[i] : i \in 1..Len(Devs)}

NoNode == "-"

\* The attributes of a device the handler reads.  powerSource "None" stands
\* for a missing (falsy) attribute.
Dev(t, p, mf, md) == [type |-> t, powerSource |-> p, manufId |-> mf, modelId |-> md]

DeviceKinds ==
    { Dev("Coordinator", "None", 0, "other"),
      Dev("Router", "Mains", 4476, "other"),
      Dev("Router", "Battery", 4476, "other"),
      Dev("Router", "None", 4476, "other"),
      Dev("EndDevice", "Battery", 4476, "other"),
      Dev("Coordinator", "None", 4448, "E11-G13") }

\* The registries explored: the coordinator is the first device of the
\* registry and the only one of its type.
Registries ==
    {f \in [Nodes -> DeviceKinds] :
        \A i \in 1..Len(Devs) : (f[Devs[i]].type = "Coordinator") <=> (i = 1)}

VARIABLES
    devices,    \* zigbee device registry: address -> attributes (read only)
    timers,     \* this.timers: address -> "none" | "armed" | "fired"
    pending,    \* this.pending: array of addresses
    queue,      \* this.queue: [jobs, pending, running]
    probes,     \* zigbee.ping calls whose callback has not been invoked yet
    lifecycle,  \* number of onMQTTConnected()/stop() calls so far
    connected,  \* onMQTTConnected() has been called
    stopped,    \* stop() has returned and onMQTTConnected() was not called since
    last,       \* the handler that ran last: [op, node, arg]
    trace,      \* the effects of the handler that ran last, in program order
    pubCount,   \* publishes for a node since its job was submitted
    lifePubs,   \* those of pubCount made by onMQTTConnected()/stop()
    settings,   \* settings.getDevice: address -> configured entry (read only)
    bus,        \* the mqtt.publish calls of the handler that ran last
    lastPub     \* the payload published last for a node ("none" before any)

vars == <<devices, timers, pending, queue, probes, lifecycle, connected,
          stopped, last, trace, pubCount, lifePubs, settings, bus, lastPub>>

\* ----------------------------------------------------------------- helpers
Range(s) == {s[i] : i \in 1..Len(s)}

Count(s, x) == Cardinality({i \in 1..Len(s) : s[i] = x})

\* Array.prototype.indexOf: the first index holding x, 0 when there is none.
IndexOf(s, x) ==
    IF x \in Range(s) THEN CHOOSE i \in 1..Len(s) : s[i] = x /\ \A j \in 1..(i - 1) : s[j] # x
    ELSE 0

\* Array.prototype.splice(index, 1)
Splice(s, i) == SubSeq(s, 1, i - 1) \o SubSeq(s, i + 1, Len(s))

\* An effect of a handler: what it did, to which node, with which payload
\* (publish) or delay in milliseconds (setTimer).
Ev(e, n, a, d) == [ev |-> e, node |-> n, arg |-> a, delay |-> d]

Emit(s, e) == [s EXCEPT !.trace = Append(@, e)]

\* Op applied to the value of v (v is evaluated once).
Call(Op(_), v) == CHOOSE y \in {Op(x) : x \in {v}} : TRUE

NumPub(tr, n) == Cardinality({i \in 1..Len(tr) : tr[i].ev = "publish" /\ tr[i].node = n})

\* The program state a handler works on, with an empty effect trace.
Cur == [timers |-> timers, pending |-> pending, queue |-> queue,
        probes |-> probes, trace |-> <<>>, bus |-> <<>>]

\* ------------------------------------------------------------- the program
\* settings.get().experimental.availability_timeout, in seconds
availability_timeout == 200

\* A queue left at two concurrent jobs.
concurrencyTwo == 1 + 1

\* queue.concurrency = 1
concurrency == 1

\* queue.autostart = true
autostart == TRUE

\* An eligibility test that takes a missing power source for mains power.
isPingableNoPresenceCheck(device) ==
    \/ (device.type = "Router" /\ device.powerSource # "Battery")
    \/ (device.manufId = 4448 /\ device.modelId = "E11-G13")

isPingable(device) ==
    \/ (device.type = "Router" /\ device.powerSource # "None"
                               /\ device.powerSource # "Battery")
    \/ (device.manufId = 4448 /\ device.modelId = "E11-G13")

\* zigbee.getAllClients(): the registry's sequence of all known devices
getAllClients == Devs

getAllPingableDevices == SelectSeq(getAllClients, LAMBDA d : isPingable(devices[d]))

\* A value that is not there (JavaScript undefined).
Undefined == "undefined"

\* What settings.getDevice can return for an address: no entry, an entry
\* without a friendly_name, an entry with one.
NoEntry == [present |-> FALSE, friendly_name |-> Undefined]

Unnamed == [present |-> TRUE, friendly_name |-> Undefined]

Named(ieeeAddr) == [present |-> TRUE, friendly_name |-> "name_" \o ieeeAddr]

\* A value inside a template literal: undefined reads "undefined".
Interpolate(v) == IF v = Undefined THEN "undefined" ELSE v

\* The calls of the branch for the name 'big_lamp' only write to the log.
publishAvailability(s, ieeeAddr, available) ==
    LET deviceSettings == settings[ieeeAddr]
        name == IF deviceSettings.present THEN deviceSettings.friendly_name ELSE ieeeAddr
        topic == Interpolate(name) \o "/availability"
        payload == IF available THEN "online" ELSE "offline"
        Publish(r) == [r EXCEPT !.bus = Append(@, [ieeeAddr |-> ieeeAddr, topic |-> topic,
                                                   payload |-> payload,
                                                   retain |-> TRUE, qos |-> 0])]
    IN Call(Publish, Emit(s, Ev("publish", ieeeAddr, payload, 0)))

\* clearTimeout of the old handle, then a fresh setTimeout of
\* availability_timeout seconds, in milliseconds
setTimer(s, ieeeAddr) ==
    Emit([s EXCEPT !.timers[ieeeAddr] = "armed"],
         Ev("setTimer", ieeeAddr, "-", availability_timeout * 1000))

\* The queue (npm `queue`), as the constructor sets it up.  Its state is the
\* array of waiting jobs, the number of running jobs (pending) and the
\* running flag.  push() appends the job and, under autostart, calls start();
\* start() sets running and takes jobs from the front while fewer than
\* `concurrency` run; the callback handed to a job (queueCallback) ends it
\* and calls start() again if the queue is still running; stop() only clears
\* the running flag: it neither drops the waiting jobs nor ends the running
\* one, and the next push() starts the queue again.  No job timeout is set.

\* done() of the queue: the queue has run dry
QueueDone(s) == [s EXCEPT !.queue.running = FALSE]

\* The job pushed by handleInterval, when the queue runs it: zigbee.ping(...)
RunJob(s, ieeeAddr) ==
    Emit([s EXCEPT !.probes = Append(@, ieeeAddr)], Ev("ping", ieeeAddr, "-", 0))

\* queue.start(): take jobs while fewer than `concurrency` are running
RECURSIVE QueueStart(_)
QueueStart(s) ==
    LET Again(t) == IF t.queue.running /\ t.queue.jobs # <<>> THEN QueueStart(t) ELSE t
        Start(r) ==
            IF r.queue.pending >= concurrency THEN r
            ELSE IF r.queue.jobs = <<>> THEN (IF r.queue.pending = 0 THEN QueueDone(r) ELSE r)
            ELSE Call(Again, RunJob([r EXCEPT !.queue.jobs = Tail(@),
                                              !.queue.pending = @ + 1], Head(r.queue.jobs)))
    IN Call(Start, [s EXCEPT !.queue.running = TRUE])

\* A queue whose push puts the job in front (unshift).
QueueUnshift(s, ieeeAddr) ==
    LET r == Emit([s EXCEPT !.queue.jobs = <<ieeeAddr>> \o @], Ev("push", ieeeAddr, "-", 0))
    IN IF autostart THEN QueueStart(r) ELSE r

\* queue.push(job): with autostart the queue is (re)started on every push
QueuePush(s, ieeeAddr) ==
    LET r == Emit([s EXCEPT !.queue.jobs = Append(@, ieeeAddr)], Ev("push", ieeeAddr, "-", 0))
    IN IF autostart THEN QueueStart(r) ELSE r

\* queueCallback(): the `next` the queue hands to a job
QueueNext(s) ==
    LET Ended(r) == IF r.queue.pending = 0 /\ r.queue.jobs = <<>> THEN QueueDone(r)
                    ELSE IF r.queue.running THEN QueueStart(r)
                    ELSE r
    IN Call(Ended, [s EXCEPT !.queue.pending = @ - 1])

\* queue.stop()
QueueStop(s) == Emit([s EXCEPT !.queue.running = FALSE], Ev("stop", NoNode, "-", 0))

RECURSIVE PublishAll(_, _, _)
PublishAll(s, devs, available) ==
    IF devs = <<>> THEN s
    ELSE PublishAll(publishAvailability(s, Head(devs), available), Tail(devs), available)

RECURSIVE SetTimers(_, _)
SetTimers(s, devs) ==
    IF devs = <<>> THEN s ELSE SetTimers(setTimer(s, Head(devs)), Tail(devs))

NotCoordinator == SelectSeq(Devs, LAMBDA d : devices[d].type # "Coordinator")

\* A start that arms a timer for every device it published.
onMQTTConnectedArmAll(s) ==
    SetTimers(PublishAll(s, NotCoordinator, TRUE), NotCoordinator)

onMQTTConnected(s) ==
    SetTimers(PublishAll(s, NotCoordinator, TRUE), getAllPingableDevices)

\* A timer callback without the pending check.
handleIntervalNoCheck(s, ieeeAddr) ==
    QueuePush([s EXCEPT !.pending = Append(@, ieeeAddr)], ieeeAddr)

handleInterval(s, ieeeAddr) ==
    IF ieeeAddr \in Range(s.pending) THEN s
    ELSE QueuePush([s EXCEPT !.pending = Append(@, ieeeAddr)], ieeeAddr)

\* A ping callback that returns early on an error: no publish, no cleanup,
\* no queueCallback().
pingCallbackErrorReturn(s, i, error) ==
    LET ieeeAddr == s.probes[i]
        r == [s EXCEPT !.probes = Splice(@, i)]
        p == publishAvailability(r, ieeeAddr, TRUE)
        index == IndexOf(p.pending, ieeeAddr)
        q == IF index # 0
             THEN Emit([p EXCEPT !.pending = Splice(@, index)], Ev("unpend", ieeeAddr, "-", 0))
             ELSE p
    IN IF error THEN r ELSE QueueNext(setTimer(q, ieeeAddr))

\* A ping callback that rearms the timer only after a successful ping.
pingCallbackNoRearm(s, i, error) ==
    LET ieeeAddr == s.probes[i]
        p == publishAvailability([s EXCEPT !.probes = Splice(@, i)], ieeeAddr, ~error)
        index == IndexOf(p.pending, ieeeAddr)
        q == IF index # 0
             THEN Emit([p EXCEPT !.pending = Splice(@, index)], Ev("unpend", ieeeAddr, "-", 0))
             ELSE p
    IN QueueNext(IF error THEN q ELSE setTimer(q, ieeeAddr))

\* A ping callback that does not publish the outcome.
pingCallbackNoPublish(s, i, error) ==
    LET ieeeAddr == s.probes[i]
        p == [s EXCEPT !.probes = Splice(@, i)]
        index == IndexOf(p.pending, ieeeAddr)
        q == IF index # 0
             THEN Emit([p EXCEPT !.pending = Splice(@, index)], Ev("unpend", ieeeAddr, "-", 0))
             ELSE p
    IN QueueNext(setTimer(q, ieeeAddr))

\* The callback handed to zigbee.ping for the i-th outstanding probe
pingCallback(s, i, error) ==
    LET ieeeAddr == s.probes[i]
        Unpend(p) ==
            LET index == IndexOf(p.pending, ieeeAddr)
            IN IF index # 0
               THEN Emit([p EXCEPT !.pending = Splice(@, index)], Ev("unpend", ieeeAddr, "-", 0))
               ELSE p
        p == publishAvailability([s EXCEPT !.probes = Splice(@, i)], ieeeAddr, ~error)
    IN QueueNext(setTimer(Call(Unpend, p), ieeeAddr))

\* A stop that publishes offline for every known device.
stopAllDevices(s) == PublishAll(QueueStop(s), Devs, FALSE)

stop(s) == PublishAll(QueueStop(s), NotCoordinator, FALSE)

\* A message handler that rearms the timer of any device.
onZigbeeMessageAnyDevice(s, ieeeAddr) == setTimer(s, ieeeAddr)

\* A message handler that also marks the device online.
onZigbeeMessagePublish(s, ieeeAddr) ==
    IF isPingable(devices[ieeeAddr])
    THEN publishAvailability(setTimer(s, ieeeAddr), ieeeAddr, TRUE)
    ELSE s

onZigbeeMessage(s, ieeeAddr) ==
    IF isPingable(devices[ieeeAddr]) THEN setTimer(s, ieeeAddr) ELSE s

\* ------------------------------------------------------------- the actions
HasJob(n) == n \in Range(queue.jobs) \cup Range(probes)

\* Write back the state a handler produced.  `done` is the node whose job
\* completed in this handler (NoNode when none did).
Commit(s, op, n, a, done) ==
    /\ timers' = s.timers
    /\ pending' = s.pending
    /\ queue' = s.queue
    /\ probes' = s.probes
    /\ trace' = s.trace
    /\ last' = [op |-> op, node |-> n, arg |-> a]
    /\ pubCount' = [m \in Nodes |->
                      IF m = done THEN 0
                      ELSE IF HasJob(m) THEN pubCount[m] + NumPub(s.trace, m)
                      ELSE 0]
    /\ lifePubs' = [m \in Nodes |->
                      IF m = done THEN 0
                      ELSE IF HasJob(m) /\ op \in {"connect", "stop"}
                           THEN lifePubs[m] + NumPub(s.trace, m)
                      ELSE IF HasJob(m) THEN lifePubs[m]
                      ELSE 0]
    /\ bus' = s.bus
    /\ lastPub' = [m \in Nodes |->
                     LET pubs == {i \in 1..Len(s.trace) :
                                     s.trace[i].ev = "publish" /\ s.trace[i].node = m}
                     IN IF pubs = {} THEN lastPub[m]
                        ELSE s.trace[CHOOSE i \in pubs : \A j \in pubs : j <= i].arg]
    /\ UNCHANGED <<devices, settings>>

MQTTConnected ==
    /\ lifecycle < MaxLifecycle
    /\ \E r \in {onMQTTConnected(Cur)} : Commit(r, "connect", NoNode, "-", NoNode)
    /\ lifecycle' = lifecycle + 1
    /\ connected' = TRUE
    /\ stopped' = FALSE

\* The setTimeout callback of setTimer: one shot
TimerFire(n) ==
    /\ timers[n] = "armed"
    /\ \E r \in {handleInterval([Cur EXCEPT !.timers[n] = "fired"], n)} :
          Commit(r, "timer", n, "-", NoNode)
    /\ UNCHANGED <<lifecycle, connected, stopped>>

PingCallback(i, error) ==
    /\ i \in 1..Len(probes)
    /\ \E r \in {pingCallback(Cur, i, error)} :
          Commit(r, "pingCallback", probes[i], IF error THEN "error" ELSE "ok", probes[i])
    /\ UNCHANGED <<lifecycle, connected, stopped>>

ZigbeeMessage(n) ==
    /\ \E r \in {onZigbeeMessage(Cur, n)} : Commit(r, "message", n, "-", NoNode)
    /\ UNCHANGED <<lifecycle, connected, stopped>>

Stop ==
    /\ lifecycle < MaxLifecycle
    /\ \E r \in {stop(Cur)} : Commit(r, "stop", NoNode, "-", NoNode)
    /\ lifecycle' = lifecycle + 1
    /\ stopped' = TRUE
    /\ UNCHANGED connected

\* The handler as the constructor leaves it
Constructed ==
    /\ timers = [n \in Nodes |-> "none"]
    /\ pending = <<>>
    /\ queue = [jobs |-> <<>>, pending |-> 0, running |-> FALSE]
    /\ probes = <<>>
    /\ lifecycle = 0
    /\ connected = FALSE
    /\ stopped = FALSE
    /\ last = [op |-> "init", node |-> NoNode, arg |-> "-"]
    /\ trace = <<>>
    /\ pubCount = [n \in Nodes |-> 0]
    /\ lifePubs = [n \in Nodes |-> 0]
    /\ bus = <<>>
    /\ lastPub = [n \in Nodes |-> "none"]

\* The usual configuration: an entry with a friendly name for every device
\* but the coordinator.
DefaultSettings ==
    [n \in Nodes |-> IF devices[n].type = "Coordinator" THEN NoEntry ELSE Named(n)]

Init ==
    /\ devices \in Registries
    /\ settings = DefaultSettings
    /\ Constructed

Next ==
    \/ MQTTConnected
    \/ \E n \in Nodes : TimerFire(n)
    \/ \E i \in 1..concurrency, error \in BOOLEAN : PingCallback(i, error)
    \/ \E n \in Nodes : ZigbeeMessage(n)
    \/ Stop

Spec == Init /\ [][Next]_vars

\* The queue drains as long as every started probe answers: zigbee.ping
\* invokes its callback.  A timer that stays armed and is not rearmed by
\* traffic fires.
\* The registries of the fair behaviours: a coordinator, a mains powered
\* router and a mains or battery powered router.
FairInit ==
    /\ Init
    /\ devices[Devs[1]] = Dev("Coordinator", "None", 0, "other")
    /\ devices[Devs[2]] = Dev("Router", "Mains", 4476, "other")
    /\ devices[Devs[3]].type = "Router"
    /\ devices[Devs[3]].powerSource # "None"

FairSpec ==
    /\ FairInit
    /\ [][Next]_vars
    /\ WF_vars(\E i \in 1..concurrency, error \in BOOLEAN : PingCallback(i, error))
    /\ \A n \in Nodes :
          \/ []<>(timers[n] # "armed")
          \/ []<><<ZigbeeMessage(n)>>_vars

\* The handler while it is never stopped.
RunNext ==
    \/ MQTTConnected
    \/ \E n \in Nodes : TimerFire(n)
    \/ \E i \in 1..concurrency, error \in BOOLEAN : PingCallback(i, error)
    \/ \E n \in Nodes : ZigbeeMessage(n)

SpecRunning ==
    /\ FairInit
    /\ [][RunNext]_vars
    /\ WF_vars(\E i \in 1..concurrency, error \in BOOLEAN : PingCallback(i, error))
    /\ \A n \in Nodes :
          \/ []<>(timers[n] # "armed")
          \/ []<><<ZigbeeMessage(n)>>_vars

\* Every combination of the attributes isPingable reads.
AllDeviceKinds ==
    {Dev(t, p, mf, md) : t \in {"Coordinator", "Router", "EndDevice"},
                         p \in {"Mains", "DC Source", "Battery", "None"},
                         mf \in {4448, 4476},
                         md \in {"E11-G13", "other"}}

\* Registries whose first device is of any kind, beside a mains powered
\* router and a battery powered end device.
ClassifyInit ==
    /\ devices \in {f \in [Nodes -> AllDeviceKinds] :
                      /\ f[Devs[2]] = Dev("Router", "Mains", 4476, "other")
                      /\ f[Devs[3]] = Dev("EndDevice", "Battery", 4476, "other")}
    /\ settings = DefaultSettings
    /\ Constructed

\* The handlers that classify a device: start and a received message.
ClassifyNext ==
    \/ MQTTConnected
    \/ \E n \in Nodes : ZigbeeMessage(n)

SpecClassify == ClassifyInit /\ [][ClassifyNext]_vars

\* ------------------------------------------------------------------ claims
InPending(n) == n \in Range(pending)

Pingable(n) == isPingable(devices[n])

IsCoordinator(n) == devices[n].type = "Coordinator"

EventsOf(tr, e) == {i \in 1..Len(tr) : tr[i].ev = e}

\* C1: a node's address occurs at most once in the pending set and at most
\* one probe job for it is queued or executing; a timer that fires for a node
\* already in the pending set submits no job and leaves the pending set and
\* the queue unchanged.
C1_NoDuplicateJob ==
    /\ [](\A n \in Nodes :
            /\ Count(pending, n) <= 1
            /\ Count(queue.jobs, n) + Count(probes, n) <= 1)
    /\ [][\A n \in Nodes :
            (last'.op = "timer" /\ last'.node = n /\ InPending(n))
                => /\ pending' = pending
                   /\ queue' = queue
                   /\ probes' = probes
                   /\ EventsOf(trace', "push") = {}]_vars

\* The timer of a node fired while its job was still waiting in the queue.
C1_Witness ==
    /\ last.op = "timer"
    /\ InPending(last.node)
    /\ last.node \in Range(queue.jobs)
    /\ trace = <<>>

\* C2: at every instant at most one probe (zigbee.ping) is outstanding
\* across all nodes, and no handler starts more than one.
C2_OneOutstandingProbe ==
    /\ Len(probes) <= 1
    /\ Cardinality(EventsOf(trace, "ping")) <= 1

\* A probe is outstanding while other jobs wait and the queue was stopped.
C2_Witness ==
    /\ Len(probes) = 1
    /\ Len(queue.jobs) >= 1
    /\ stopped

\* C3: a completed probe publishes exactly its outcome, removes the node from
\* the pending set and rearms its timer for the full quiet period, in this
\* order and before the next job is started; the node is not resubmitted by
\* the completion.
C3_CompletionEffects ==
    last.op = "pingCallback" =>
        LET n == last.node IN
        /\ Len(trace) >= 3
        /\ trace[1] = Ev("publish", n, IF last.arg = "ok" THEN "online" ELSE "offline", 0)
        /\ trace[2] = Ev("unpend", n, "-", 0)
        /\ trace[3] = Ev("setTimer", n, "-", availability_timeout * 1000)
        /\ \A i \in 4..Len(trace) : trace[i].ev = "ping" /\ trace[i].node # n
        /\ ~InPending(n)
        /\ ~HasJob(n)
        /\ timers[n] = "armed"

\* A failed probe completed and the next queued job was started.
C3_Witness ==
    /\ last.op = "pingCallback"
    /\ last.arg = "error"
    /\ Len(trace) = 4
    /\ trace[4].ev = "ping"

\* C4: after stop() has returned no probe job is started.
C4_NoProbeAfterStop ==
    stopped => EventsOf(trace, "ping") = {}

\* C5: after stop() no node has a live timer and no timer callback runs.
C5_NoTimerAfterStop ==
    stopped => /\ \A n \in Nodes : timers[n] # "armed"
               /\ last.op # "timer"

\* C6: every node in the pending set eventually leaves it, also when stop()
\* is called while its job is queued or executing.
C6_PendingLeaves ==
    \A n \in Nodes : InPending(n) ~> ~InPending(n)

\* C6 as amended: every node in the pending set eventually leaves it, unless
\* stop() halts the queue while the node's job is still queued.
C6_PendingLeavesUnlessHalted ==
    \A n \in Nodes :
        InPending(n) ~> (~InPending(n) \/ (~queue.running /\ n \in Range(queue.jobs)))

\* stop() was called while a probe was executing, and the probe's node has
\* left the pending set.
C6_Witness ==
    /\ stopped
    /\ last.op = "pingCallback"
    /\ ~InPending(last.node)
    /\ queue.jobs # <<>>

\* C7: between the submission of a job for a node and the processing of its
\* completion exactly one availability publish for the node occurs.
C7_OnePublishPerJob ==
    [][\A n \in Nodes :
         (last'.op = "pingCallback" /\ last'.node = n)
             => pubCount[n] + NumPub(trace', n) = 1]_vars

\* C7 as amended: between submission and completion the job itself publishes
\* exactly once for the node; every other publish for the node in between is
\* one of onMQTTConnected() or stop().
C7_OneProbePublishPerJob ==
    [][\A n \in Nodes :
         (last'.op = "pingCallback" /\ last'.node = n)
             => /\ NumPub(trace', n) = 1
                /\ pubCount[n] = lifePubs[n]]_vars

\* A job completed after stop() had published for its node.
C7_Witness ==
    /\ last.op = "pingCallback"
    /\ stopped
    /\ NumPub(trace, last.node) = 1

\* C8: after start every probe-eligible node has a live timer or a probe job
\* queued or executing; a node that is not probe-eligible never has a timer.
C8_TimerOrJob ==
    /\ connected => \A n \in Nodes : Pingable(n) => (timers[n] = "armed" \/ HasJob(n))
    /\ \A n \in Nodes : ~Pingable(n) => timers[n] = "none"

\* After start an eligible node has no live timer but a job, and another
\* node is not eligible.
C8_Witness ==
    /\ connected
    /\ \E n \in Nodes : Pingable(n) /\ timers[n] = "fired" /\ HasJob(n)
    /\ \E n \in Nodes : ~Pingable(n) /\ ~IsCoordinator(n)
    /\ last.op = "message"

\* C9: probe jobs are executed in submission order: a probe is never
\* outstanding for a node while an earlier submitted job is not completed.
C9_SubmissionOrder ==
    \A i, j \in 1..Len(pending) : i < j => pending[j] \notin Range(probes)

\* Three jobs were submitted, the first completed and the second was started.
C9_Witness ==
    /\ last.op = "pingCallback"
    /\ Len(pending) = 2
    /\ probes = <<pending[1]>>
    /\ queue.jobs = <<pending[2]>>

\* C10: start publishes online exactly once for every non-coordinator and
\* for no coordinator, all publishes before any timer is armed, then arms a
\* timer for exactly the probe-eligible nodes; the pending set and the queue
\* are unchanged.
C10_Start ==
    [][last'.op = "connect" =>
         /\ \A i \in 1..Len(trace') : trace'[i].ev \in {"publish", "setTimer"}
         /\ \A i \in EventsOf(trace', "publish") : trace'[i].arg = "online"
         /\ \A n \in Nodes : NumPub(trace', n) = IF IsCoordinator(n) THEN 0 ELSE 1
         /\ \A i \in EventsOf(trace', "publish") :
                \A j \in EventsOf(trace', "setTimer") : i < j
         /\ \A n \in Nodes :
                Cardinality({i \in EventsOf(trace', "setTimer") : trace'[i].node = n})
                    = IF Pingable(n) THEN 1 ELSE 0
         /\ \A n \in Nodes : (timers'[n] = "armed") <=> Pingable(n)
         /\ pending' = pending
         /\ queue' = queue
         /\ probes' = probes]_vars

\* Start with a coordinator, a mains powered router and a battery powered
\* router: online for the two routers, a timer for the first only.
C10_Witness ==
    /\ last.op = "connect"
    /\ devices["A"].type = "Coordinator" /\ ~Pingable("A")
    /\ devices["B"] = Dev("Router", "Mains", 4476, "other")
    /\ devices["C"] = Dev("Router", "Battery", 4476, "other")
    /\ trace = << Ev("publish", "B", "online", 0), Ev("publish", "C", "online", 0),
                  Ev("setTimer", "B", "-", availability_timeout * 1000) >>

\* C11: stop() halts the queue first and then publishes offline exactly once
\* for every non-coordinator and for no coordinator, whatever was published
\* before.
C11_StopPublishesOffline ==
    last.op = "stop" =>
        /\ Len(trace) >= 1
        /\ trace[1] = Ev("stop", NoNode, "-", 0)
        /\ \A i \in 2..Len(trace) : trace[i].ev = "publish" /\ trace[i].arg = "offline"
        /\ \A n \in Nodes : NumPub(trace, n) = IF IsCoordinator(n) THEN 0 ELSE 1
        /\ ~queue.running

\* stop() ran while a probe was executing and another job was waiting.
C11_Witness ==
    /\ last.op = "stop"
    /\ probes # <<>>
    /\ queue.jobs # <<>>
    /\ trace = << Ev("stop", NoNode, "-", 0), Ev("publish", "B", "offline", 0),
                  Ev("publish", "C", "offline", 0) >>

\* C12: a message from a node changes nothing but that node's timer: it
\* rearms the timer of a probe-eligible node for the full quiet period and
\* arms nothing for any other node; it submits no job, publishes nothing and
\* leaves the pending set and every other timer unchanged.
C12_TrafficOnlyRearms ==
    [][\A n \in Nodes :
         (last'.op = "message" /\ last'.node = n)
             => /\ pending' = pending
                /\ queue' = queue
                /\ probes' = probes
                /\ \A m \in Nodes \ {n} : timers'[m] = timers[m]
                /\ IF Pingable(n)
                   THEN /\ timers'[n] = "armed"
                        /\ trace' = << Ev("setTimer", n, "-", availability_timeout * 1000) >>
                   ELSE /\ timers'[n] = timers[n]
                        /\ trace' = <<>>]_vars

\* A message arrived from an eligible node whose timer had fired and whose
\* job is still pending.
C12_Witness ==
    /\ last.op = "message"
    /\ Pingable(last.node)
    /\ InPending(last.node)
    /\ timers[last.node] = "armed"
    /\ \E n \in Nodes : timers[n] = "fired"

Override(d) == d.manufId = 4448 /\ d.modelId = "E11-G13"

\* C13: a node is probe-eligible exactly when it is a router with a power
\* source that is present and not Battery, or matches the vendor/model
\* override; the override counts for every role and power source, and a
\* router with a battery or a missing power source and an ordinary
\* vendor/model is not eligible.
C13_Eligibility ==
    \A n \in Nodes :
        LET d == devices[n] IN
        /\ Override(d) => isPingable(d)
        /\ (~Override(d) /\ d.type = "Router" /\ d.powerSource \in {"Mains", "DC Source"})
               => isPingable(d)
        /\ (~Override(d) /\ d.type = "Router" /\ d.powerSource \in {"Battery", "None"})
               => ~isPingable(d)
        /\ (~Override(d) /\ d.type # "Router") => ~isPingable(d)
        /\ (last.op = "message" /\ last.node = n)
               => ((timers[n] = "armed")
                      <=> (Override(d) \/ (d.type = "Router"
                                  /\ d.powerSource \in {"Mains", "DC Source"})))

\* A message from a battery powered coordinator of the override vendor and
\* model armed its timer.
C13_Witness ==
    /\ last.op = "message"
    /\ devices[last.node] = Dev("Coordinator", "Battery", 4448, "E11-G13")
    /\ timers[last.node] = "armed"

\* ------------------------------------------------------------------- C14
\* The settings explored for the publish topic: every device with no entry,
\* an entry without a friendly_name, or an entry with one.
SettingsKinds(n) == {NoEntry, Unnamed, Named(n)}

PublishInit ==
    /\ devices = [n \in Nodes |->
                     IF n = Devs[1] THEN Dev("Coordinator", "None", 0, "other")
                     ELSE IF n = Devs[2] THEN Dev("Router", "Mains", 4476, "other")
                     ELSE Dev("Router", "Battery", 4476, "other")]
    /\ settings \in {f \in [Nodes -> UNION {SettingsKinds(n) : n \in Nodes}] :
                        \A n \in Nodes : f[n] \in SettingsKinds(n)}
    /\ Constructed

SpecPublish == PublishInit /\ [][Next]_vars

\* The name the topic is to carry: the configured friendly name, the raw
\* address when none is configured.
ConfiguredName(n) ==
    IF settings[n].present /\ settings[n].friendly_name # Undefined
    THEN settings[n].friendly_name ELSE n

\* C14: every publishAvailability call emits exactly one retained qos-0 bus
\* message with payload online/offline on the topic <name>/availability,
\* where <name> is the configured friendly name, and the raw address whenever
\* no friendly name is configured (no entry, or an entry without one).
C14_TopicName ==
    LET IsPublish(e) == e.ev = "publish"
        calls == SelectSeq(trace, IsPublish)
    IN
    /\ Len(bus) = Len(calls)
    /\ \A i \in 1..Len(bus) :
          /\ bus[i].ieeeAddr = calls[i].node
          /\ bus[i].payload = calls[i].arg
          /\ bus[i].payload \in {"online", "offline"}
          /\ bus[i].retain /\ bus[i].qos = 0
          /\ bus[i].topic = ConfiguredName(bus[i].ieeeAddr) \o "/availability"

\* ------------------------------------------------------------------- C15
\* C15: after stop() has published offline for the non-coordinator nodes,
\* the status published last for each of them stays offline until
\* onMQTTConnected() is called again, also when a probe was executing or a
\* timer was armed when stop() was called.
C15_OfflineAfterStop ==
    stopped => \A n \in Nodes : ~IsCoordinator(n) => lastPub[n] = "offline"

\* ------------------------------------------------------------------- C16
\* C16: between onMQTTConnected() and stop(), whenever a message from a
\* pingable device is observed, the status published last for it is online.
C16_OnlineWhenTraffic ==
    (connected /\ ~stopped /\ last.op = "message" /\ Pingable(last.node))
        => lastPub[last.node] = "online"

\* ------------------------------------------------------------------- C17
\* A message from n was observed / the probe of n completed and its result
\* was published, in the handler that ran last.
Observed(n) == last.op = "message" /\ last.node = n

ProbedAndPublished(n) ==
    /\ last.op = "pingCallback" /\ last.node = n
    /\ NumPub(trace, n) = 1

\* The timer of n fired while n was not pending: a job was submitted.
Submitted(n) ==
    /\ last.op = "timer" /\ last.node = n
    /\ \E i \in 1..Len(trace) : trace[i].ev = "push" /\ trace[i].node = n

\* C17: once started and never stopped, with every started probe answered
\* and timers firing, every pingable node is infinitely often observed
\* sending traffic or probed and published; a node whose timer fires while
\* it is not pending eventually gets the publish of its probe result.
C17_Progress ==
    \A n \in Nodes :
        /\ (connected /\ Pingable(n)) ~> (Observed(n) \/ ProbedAndPublished(n))
        /\ Submitted(n) ~> ProbedAndPublished(n)

\* The probe of a node failed while another job was waiting: offline was
\* published for it, its timer was rearmed and the next probe started.
C17_Witness ==
    /\ connected /\ ~stopped
    /\ ProbedAndPublished(last.node)
    /\ last.arg = "error"
    /\ lastPub[last.node] = "offline"
    /\ timers[last.node] = "armed"
    /\ probes # <<>>

\* ------------------------------------------------------------------- C18
\* C18: while a started probe has not invoked its callback the queue stalls.
\* Every handler that runs in the meantime leaves the probe outstanding and
\* starts no job, whether submitted before or after; every pending node
\* stays pending in its place, a node whose timer fires joins the pending
\* set and the waiting jobs, and no probe result is published: the only
\* publishes are those of onMQTTConnected() and stop().
C18_StallWhileProbeOutstanding ==
    [][(probes # <<>> /\ last'.op # "pingCallback") =>
          /\ probes' = probes
          /\ \A i \in 1..Len(trace') : trace'[i].ev # "ping"
          /\ queue'.pending = queue.pending
          /\ \A i \in 1..Len(pending) : pending'[i] = pending[i]
          /\ \A i \in 1..Len(queue.jobs) : queue'.jobs[i] = queue.jobs[i]
          /\ Range(pending') = Range(queue'.jobs) \cup Range(probes')
          /\ last'.op = "timer" => last'.node \in Range(pending')
          /\ last'.op \notin {"connect", "stop"} =>
                \A i \in 1..Len(trace') : trace'[i].ev # "publish"
      ]_vars

\* With a probe outstanding and the queue halted by stop(), the timer of
\* another node fired: its job waits behind the probe.
C18_Witness ==
    /\ stopped
    /\ last.op = "timer"
    /\ probes # <<>>
    /\ last.node \notin Range(probes)
    /\ queue.jobs = <<last.node>>
    /\ queue.running
    /\ pending = probes \o queue.jobs

\* ------------------------------------------------------------------- C19
\* C19: in every reachable state the pending set is the set of nodes with a
\* job queued or executing, and a node is pending if and only if exactly
\* one job for it was submitted and has not had its completion processed.
C19_PendingIsJobs ==
    /\ Range(pending) = Range(queue.jobs) \cup Range(probes)
    /\ \A n \in Nodes :
          /\ Count(pending, n) = Count(queue.jobs, n) + Count(probes, n)
          /\ Count(pending, n) <= 1
          /\ InPending(n) <=> Count(queue.jobs \o probes, n) = 1

\* stop() halted the queue with a job waiting; the probe that was executing
\* has completed since, and the waiting node is still pending.
C19_Witness ==
    /\ stopped
    /\ last.op = "pingCallback"
    /\ ~queue.running
    /\ probes = <<>>
    /\ Len(queue.jobs) = 1
    /\ pending = queue.jobs

\* ------------------------------------------------------------------- C20
\* C20: nothing is ever published for a device of type Coordinator, no timer
\* is ever armed for it and no probe is ever submitted for it.
C20_CoordinatorExcluded ==
    \A n \in Nodes : IsCoordinator(n) =>
        /\ lastPub[n] = "none"
        /\ NumPub(trace, n) = 0
        /\ timers[n] = "none"
        /\ ~InPending(n)
        /\ ~HasJob(n)

====
